---- MODULE Spec2Model ----
(***************************************************************************)
(* A model of cmzqc: the mzQC document classes (mzqc.hpp), their JSON      *)
(* codec, the presence-only validator with its schema cache, the file      *)
(* boundary and the ontology term cache (mzqc.cpp).                        *)
(*                                                                         *)
(* Representation.                                                         *)
(*   std::string     a sequence of one-character strings; "" is <<>>.      *)
(*   std::vector<T>  a sequence.                                           *)
(*   shared_ptr<T>   that may be null (InputFile::fileFormat): <<>> for    *)
(*                   nullptr, <<obj>> otherwise.                           *)
(*   nlohmann::json  a record [t |-> type tag, v |-> payload]; an object's *)
(*                   payload is a function from its keys to json values.   *)
(*   an exception    a result record with ok = FALSE; obj is the state the *)
(*                   object was left in by the statements that ran.        *)
(*   a file path, an error message, a line of std::cerr                    *)
(*                   strings, and sequences of strings for a message put   *)
(*                   together from parts; they are compared, never parsed. *)
(***************************************************************************)
EXTENDS Integers, Sequences, FiniteSets, TLC

VARIABLES doc, wire, clock, call, ret, prev,
          schemaLoaded, cachedSchema, cerr, files,
          opened, schemaReads, cvTermCache, threads

vars == <<doc, wire, clock, call, ret, prev,
          schemaLoaded, cachedSchema, cerr, files,
          opened, schemaReads, cvTermCache, threads>>

(***************************************************************************)
(* Bounds of the model.                                                    *)
(***************************************************************************)
\* How many clock ticks may pass after the start of a run.
MaxTicks == 2
\* Clock ticks per second: system_clock is finer than the time_t it is cut to.
TicksPerSecond == 2

\* The clock value a run starts at: the last second of a leap day
\* (1972-02-29T23:59:59Z), so that the ticks cross a second, a day and a month.
ClockStarts == {68255999 * TicksPerSecond}

\* How many blocks of lines an ontology text is made of, at most.
MaxBlocks == 2

(***************************************************************************)
(* nlohmann::json values.                                                  *)
(***************************************************************************)
JNull == [t |-> "null", v |-> <<>>]
JString(s) == [t |-> "string", v |-> s]
JInteger(n) == [t |-> "number_integer", v |-> n]
\* A floating-point number, kept as its numerator over 10 (12.5 is JFloat(125)).
JFloat(tenths) == [t |-> "number_float", v |-> tenths]
JBoolean(b) == [t |-> "boolean", v |-> b]
JArray(a) == [t |-> "array", v |-> a]
JObject(f) == [t |-> "object", v |-> f]
EmptyObject == JObject([k \in {} |-> JNull])

is_null(j) == j.t = "null"
is_array(j) == j.t = "array"
is_object(j) == j.t = "object"
is_string(j) == j.t = "string"

\* basic_json::contains(key): false for anything that is not an object.
contains(j, key) == is_object(j) /\ key \in DOMAIN j.v

\* basic_json::operator[](key) const, which the code calls only after contains().
at(j, key) == j.v[key]

\* The result of a call that returned v, and of one that threw.
Returned(v) == [ok |-> TRUE, obj |-> v]
Threw(v) == [ok |-> FALSE, obj |-> v]

\* basic_json::get<std::string>(): type_error unless the value is a string.
get_string(j) == IF is_string(j) THEN Returned(j.v) ELSE Threw(<<>>)

\* basic_json::value(key, ""): type_error on a non-object, the default when the
\* key is absent, get<std::string>() of the member otherwise.
value(j, key) ==
  IF ~is_object(j) THEN Threw(<<>>)
  ELSE IF key \in DOMAIN j.v THEN get_string(j.v[key])
  ELSE Returned(<<>>)

\* json = std::vector<std::string>: an array of strings.
JStrings(ss) == JArray([i \in 1..Len(ss) |-> JString(ss[i])])

(***************************************************************************)
(* MzQCFile::getCurrentIsoTime.                                            *)
(***************************************************************************)
Digit(n) == <<"0", "1", "2", "3", "4", "5", "6", "7", "8", "9">>[n + 1]

RECURSIVE Decimal(_)
\* operator<< of a non-negative integer: its decimal digits.
Decimal(n) == IF n < 10 THEN <<Digit(n)>> ELSE Decimal(n \div 10) \o <<Digit(n % 10)>>

\* %m, %d, %H, %M, %S written without the zero padding.
TwoDigits_Unpadded(n) == Decimal(n)

\* %m, %d, %H, %M, %S: two digits, zero padded.
TwoDigits(n) == <<Digit((n \div 10) % 10), Digit(n % 10)>>

\* std::gmtime: the civil date and time of day of a time_t (seconds since
\* 1970-01-01T00:00:00Z, proleptic Gregorian calendar).
gmtime(time) ==
  LET days == time \div 86400
      rem  == time % 86400
      z    == days + 719468
      era  == z \div 146097
      doe  == z - era * 146097
      yoe  == (doe - doe \div 1460 + doe \div 36524 - doe \div 146096) \div 365
      doy  == doe - (365 * yoe + yoe \div 4 - yoe \div 100)
      mp   == (5 * doy + 2) \div 153
      mon  == IF mp < 10 THEN mp + 3 ELSE mp - 9
  IN [year |-> yoe + era * 400 + (IF mon <= 2 THEN 1 ELSE 0),
      mon  |-> mon,
      mday |-> doy - (153 * mp + 2) \div 5 + 1,
      hour |-> rem \div 3600,
      min  |-> (rem % 3600) \div 60,
      sec  |-> rem % 60]

\* system_clock::to_time_t: the clock value cut to whole seconds.
to_time_t(now) == now \div TicksPerSecond

FormatIsoTimeSeconds(now) ==
  LET tm == gmtime(to_time_t(now))
  IN Decimal(tm.year) \o <<"-">> \o TwoDigits(tm.mon) \o <<"-">> \o TwoDigits(tm.mday)
       \o <<"T">> \o TwoDigits(tm.hour) \o <<":">> \o TwoDigits(tm.min)
       \o <<":">> \o TwoDigits(tm.sec) \o <<"Z">>

\* put_time(gmtime(&time), "%Y-%m-%dT%H:%M:%SZ") at clock value `now`.
getCurrentIsoTime(now) == FormatIsoTimeSeconds(now)

(***************************************************************************)
(* The document classes and their encoders (toJson).                       *)
(***************************************************************************)
\* ControlledVocabulary(name, uri, version); id is default-initialised.
ControlledVocabulary(name, uri, version) ==
  [id |-> <<>>, name |-> name, uri |-> uri, version |-> version]

ControlledVocabulary_toJson(self) ==
  JObject([k \in {"id", "name", "uri", "version"} |-> JString(self[k])])

CvParameter(accession, name, val, cvRef) ==
  [accession |-> accession, name |-> name, value |-> val, cvRef |-> cvRef]

CvParameter_toJson(self) ==
  JObject([k \in {"accession", "name"} \cup {n \in {"value", "cvRef"} : self[n] # <<>>}
             |-> JString(self[k])])

AnalysisSoftware(accession, name, version, uri) ==
  [accession |-> accession, name |-> name, version |-> version, uri |-> uri]

AnalysisSoftware_toJson(self) ==
  JObject([k \in {"accession", "name", "version"} \cup {n \in {"uri"} : self.uri # <<>>}
             |-> JString(self[k])])

\* json::array() followed by a push_back of every parameter's encoding.
CvParameters_toJson(list) == JArray([i \in 1..Len(list) |-> CvParameter_toJson(list[i])])

InputFile(location, name, fileFormat, fileProperties) ==
  [location |-> location, name |-> name, fileFormat |-> fileFormat,
   fileProperties |-> fileProperties]

\* InputFile::toJson without the test for an empty fileProperties.
InputFile_toJson_PropertiesAlways(self) ==
  JObject([k \in {"location", "name", "fileProperties"}
                   \cup {n \in {"fileFormat"} : self.fileFormat # <<>>}
             |-> CASE k = "fileFormat" -> CvParameter_toJson(self.fileFormat[1])
                   [] k = "fileProperties" -> CvParameters_toJson(self.fileProperties)
                   [] OTHER -> JString(self[k])])

InputFile_toJson(self) ==
  JObject([k \in {"location", "name"}
                   \cup {n \in {"fileFormat"} : self.fileFormat # <<>>}
                   \cup {n \in {"fileProperties"} : self.fileProperties # <<>>}
             |-> CASE k = "fileFormat" -> CvParameter_toJson(self.fileFormat[1])
                   [] k = "fileProperties" -> CvParameters_toJson(self.fileProperties)
                   [] OTHER -> JString(self[k])])

QualityMetric(accession, name, description, val, unit) ==
  [accession |-> accession, name |-> name, description |-> description,
   value |-> val, unit |-> unit]

QualityMetric_toJson(self) ==
  JObject([k \in {"accession", "name"}
                   \cup {n \in {"description", "unit"} : self[n] # <<>>}
                   \cup {n \in {"value"} : ~is_null(self.value)}
             |-> IF k = "value" THEN self.value ELSE JString(self[k])])

\* json::array() followed by a push_back of every metric's encoding.
Metrics_toJson(list) == JArray([i \in 1..Len(list) |-> QualityMetric_toJson(list[i])])

RunQuality(label, inputFiles, analysisSoftware, metrics) ==
  [label |-> label, inputFiles |-> inputFiles,
   analysisSoftware |-> analysisSoftware, metrics |-> metrics]

RunQuality_toJson(self) ==
  JObject([k \in {"label", "inputFiles", "analysisSoftware", "metrics"}
             |-> CASE k = "label" -> JString(self.label)
                   [] k = "inputFiles" ->
                        JArray([i \in 1..Len(self.inputFiles) |->
                                  InputFile_toJson(self.inputFiles[i])])
                   [] k = "analysisSoftware" ->
                        JArray([i \in 1..Len(self.analysisSoftware) |->
                                  AnalysisSoftware_toJson(self.analysisSoftware[i])])
                   [] k = "metrics" -> Metrics_toJson(self.metrics)])

SetQuality(label, setRefs, metrics) ==
  [label |-> label, setRefs |-> setRefs, metrics |-> metrics]

SetQuality_toJson(self) ==
  JObject([k \in {"label", "setRefs", "metrics"}
             |-> CASE k = "label" -> JString(self.label)
                   [] k = "setRefs" -> JStrings(self.setRefs)
                   [] k = "metrics" -> Metrics_toJson(self.metrics)])

\* The constructor; `now` is the clock value it runs at. controlledVocabularies
\* is no constructor argument and starts empty.
MzQCFile(a, now) ==
  [creationDate |-> IF a.creationDate = <<>> THEN getCurrentIsoTime(now)
                    ELSE a.creationDate,
   version |-> a.version,
   contactName |-> a.contactName,
   contactAddress |-> a.contactAddress,
   description |-> a.description,
   controlledVocabularies |-> <<>>,
   runQualities |-> a.runQualities,
   setQualities |-> a.setQualities]

\* The value MzQCFile::toJson puts under a key of the mzQC object.
MzQCFile_member(self, k) ==
  CASE k = "controlledVocabularies" ->
         JArray([i \in 1..Len(self.controlledVocabularies) |->
                   ControlledVocabulary_toJson(self.controlledVocabularies[i])])
    [] k = "runQualities" ->
         JArray([i \in 1..Len(self.runQualities) |-> RunQuality_toJson(self.runQualities[i])])
    [] k = "setQualities" ->
         JArray([i \in 1..Len(self.setQualities) |-> SetQuality_toJson(self.setQualities[i])])
    [] OTHER -> JString(self[k])

\* MzQCFile::toJson writing its lists the way RunQuality::toJson does:
\* the array first, unconditionally.
MzQCFile_toJson_ListsAlways(self) ==
  JObject([r \in {"mzQC"} |->
    JObject([k \in {"version", "creationDate", "controlledVocabularies",
                    "runQualities", "setQualities"}
                     \cup {n \in {"contactName", "contactAddress", "description"} :
                             self[n] # <<>>}
               |-> MzQCFile_member(self, k)])])

MzQCFile_toJson(self) ==
  JObject([r \in {"mzQC"} |->
    JObject([k \in {"version", "creationDate"}
                     \cup {n \in {"contactName", "contactAddress", "description",
                                  "controlledVocabularies", "runQualities",
                                  "setQualities"} : self[n] # <<>>}
               |-> MzQCFile_member(self, k)])])

(***************************************************************************)
(* The decoders (fromJson). Each takes the object as it was before the     *)
(* call and gives a result: Returned(object after), or Threw(object as the *)
(* exception left it).                                                     *)
(***************************************************************************)
Min(S) == CHOOSE i \in S : \A k \in S : i <= k

\* A decoder runs its statements in order. Each statement below takes the
\* result r of the statements before it: once one has thrown, the rest do
\* not run and the object stays as the exception left it.

\* field = j.value(field, ""), for the fields named by keys, in order.
RECURSIVE SetStrings(_, _, _)
SetStrings(r, j, keys) ==
  IF ~r.ok \/ keys = <<>> THEN r
  ELSE IF value(j, Head(keys)).ok
       THEN SetStrings(Returned([r.obj EXCEPT ![Head(keys)] = value(j, Head(keys)).obj]),
                       j, Tail(keys))
       ELSE Threw(r.obj)

\* The elements a decoder's loop over j[field] visits: those of the array
\* when j has one under the key.
Items(j, field) ==
  IF contains(j, field) /\ is_array(at(j, field)) THEN at(j, field).v ELSE <<>>

\* The number of elements pushed: all, or those before the first that throws.
Pushed(decoded) ==
  IF \A i \in DOMAIN decoded : decoded[i].ok THEN Len(decoded)
  ELSE Min({i \in DOMAIN decoded : ~decoded[i].ok}) - 1

\* if (j.contains(field) && j[field].is_array()) { list.clear(); for each
\* element: decode it into a new object, push_back }. decoded[i] is the result
\* of decoding element i.
SetList(r, field, j, decoded) ==
  IF r.ok /\ contains(j, field) /\ is_array(at(j, field))
  THEN [ok |-> \A i \in DOMAIN decoded : decoded[i].ok,
        obj |-> [r.obj EXCEPT ![field] = [i \in 1..Pushed(decoded) |-> decoded[i].obj]]]
  ELSE r

ControlledVocabulary_fromJson(self, j) ==
  SetStrings(Returned(self), j, <<"id", "name", "uri", "version">>)

CvParameter_fromJson(self, j) ==
  SetStrings(Returned(self), j, <<"accession", "name", "value", "cvRef">>)

AnalysisSoftware_fromJson(self, j) ==
  SetStrings(Returned(self), j, <<"accession", "name", "version", "uri">>)

\* std::make_shared<T>(): the object the default arguments construct.
NewControlledVocabulary == ControlledVocabulary(<<>>, <<>>, <<>>)
NewCvParameter == CvParameter(<<>>, <<>>, <<>>, <<>>)
NewAnalysisSoftware == AnalysisSoftware(<<>>, <<>>, <<>>, <<>>)
NewInputFile == InputFile(<<>>, <<>>, <<>>, <<>>)
NewQualityMetric == QualityMetric(<<>>, <<>>, <<>>, JNull, <<>>)
NewRunQuality == RunQuality(<<>>, <<>>, <<>>, <<>>)
NewSetQuality == SetQuality(<<>>, <<>>, <<>>)

\* fileFormat = std::make_shared<CvParameter>(); fileFormat->fromJson(...):
\* the new object is assigned before it is decoded into.
InputFile_setFileFormat(self, decoded) ==
  [ok |-> decoded.ok, obj |-> [self EXCEPT !.fileFormat = <<decoded.obj>>]]

\* if (j.contains("fileFormat")) { ... }
InputFile_fileFormat(r, j) ==
  IF r.ok /\ contains(j, "fileFormat")
  THEN InputFile_setFileFormat(r.obj,
         CvParameter_fromJson(NewCvParameter, at(j, "fileFormat")))
  ELSE r

InputFile_fromJson(self, j) ==
  SetList(InputFile_fileFormat(SetStrings(Returned(self), j, <<"location", "name">>), j),
          "fileProperties", j,
          [i \in 1..Len(Items(j, "fileProperties")) |->
             CvParameter_fromJson(NewCvParameter, Items(j, "fileProperties")[i])])

\* if (j.contains("value")) value = j["value"];
QualityMetric_value(r, j) ==
  IF r.ok /\ contains(j, "value")
  THEN Returned([r.obj EXCEPT !.value = at(j, "value")])
  ELSE r

\* QualityMetric::fromJson without the copy of the payload.
QualityMetric_fromJson_NoValue(self, j) ==
  SetStrings(SetStrings(Returned(self), j, <<"accession", "name", "description">>),
             j, <<"unit">>)

QualityMetric_fromJson(self, j) ==
  SetStrings(
    QualityMetric_value(
      SetStrings(Returned(self), j, <<"accession", "name", "description">>), j),
    j, <<"unit">>)

\* The metrics loop of RunQuality::fromJson and SetQuality::fromJson.
Metrics_fromJson(r, j) ==
  SetList(r, "metrics", j,
          [i \in 1..Len(Items(j, "metrics")) |->
             QualityMetric_fromJson(NewQualityMetric, Items(j, "metrics")[i])])

RunQuality_fromJson(self, j) ==
  Metrics_fromJson(
    SetList(
      SetList(SetStrings(Returned(self), j, <<"label">>),
              "inputFiles", j,
              [i \in 1..Len(Items(j, "inputFiles")) |->
                 InputFile_fromJson(NewInputFile, Items(j, "inputFiles")[i])]),
      "analysisSoftware", j,
      [i \in 1..Len(Items(j, "analysisSoftware")) |->
         AnalysisSoftware_fromJson(NewAnalysisSoftware, Items(j, "analysisSoftware")[i])]),
    j)

SetQuality_fromJson(self, j) ==
  Metrics_fromJson(
    SetList(SetStrings(Returned(self), j, <<"label">>),
            "setRefs", j,
            [i \in 1..Len(Items(j, "setRefs")) |-> get_string(Items(j, "setRefs")[i])]),
    j)

\* A decoder that reads the document from j itself, wrapped or not.
mzqc_Whole(j) == j

\* const auto& mzqc = j.contains("mzQC") ? j["mzQC"] : j;
mzqc(j) == IF contains(j, "mzQC") THEN at(j, "mzQC") ELSE j

\* A decoder that stamps every document with the time now.
MzQCFile_creationDate_Stamped(self, m, now) ==
  Returned([self EXCEPT !.creationDate = getCurrentIsoTime(now)])

\* creationDate = the member's string when the key is there, else the time
\* now; a member that is no string throws.
MzQCFile_creationDate(self, m, now) ==
  IF ~contains(m, "creationDate")
  THEN Returned([self EXCEPT !.creationDate = getCurrentIsoTime(now)])
  ELSE IF get_string(at(m, "creationDate")).ok
       THEN Returned([self EXCEPT !.creationDate = get_string(at(m, "creationDate")).obj])
       ELSE Threw(self)

\* The statements of MzQCFile::fromJson on the object m they read.
MzQCFile_members(self, m, now) ==
  SetList(
    SetList(
      SetList(
        SetStrings(MzQCFile_creationDate(self, m, now), m,
                   <<"version", "contactName", "contactAddress", "description">>),
        "controlledVocabularies", m,
        [i \in 1..Len(Items(m, "controlledVocabularies")) |->
           ControlledVocabulary_fromJson(NewControlledVocabulary,
                                         Items(m, "controlledVocabularies")[i])]),
      "runQualities", m,
      [i \in 1..Len(Items(m, "runQualities")) |->
         RunQuality_fromJson(NewRunQuality, Items(m, "runQualities")[i])]),
    "setQualities", m,
    [i \in 1..Len(Items(m, "setQualities")) |->
       SetQuality_fromJson(NewSetQuality, Items(m, "setQualities")[i])])

\* The decode of j into the document self at clock value `now`.
MzQCFile_fromJson(self, j, now) == MzQCFile_members(self, mzqc(j), now)

\* The version the constructor takes by default.
DefaultVersion == <<"1", ".", "0", ".", "0">>

\* The constructor's default arguments.
DefaultArgs ==
  [creationDate |-> <<>>, version |-> DefaultVersion, contactName |-> <<>>,
   contactAddress |-> <<>>, description |-> <<>>,
   runQualities |-> <<>>, setQualities |-> <<>>]

\* std::make_shared<MzQCFile>() at clock value `now`.
NewMzQCFile(now) == MzQCFile(DefaultArgs, now)

\* An exception leaves the caller of fromJsonStatic without a document.
NoDocument(r) == IF r.ok THEN r ELSE Threw(<<>>)

MzQCFile_fromJsonStatic(j, now) ==
  NoDocument(MzQCFile_fromJson(NewMzQCFile(now), j, now))

(***************************************************************************)
(* The schema cache, the validator and the load from a file. They read the *)
(* file system and loadSchema's static locals as they are when called.     *)
(***************************************************************************)
\* A file of the file system is missing, holds bytes that are no JSON, or
\* holds a JSON document.
NoFile == [kind |-> "missing", json |-> JNull]
Garbage == [kind |-> "malformed", json |-> JNull]
JsonFile(j) == [kind |-> "json", json |-> j]

\* std::ifstream(path): what opening the path finds.
Open(path) == IF path \in DOMAIN files THEN files[path] ELSE NoFile

\* A call that threw an exception of the type, with what() the parts in order.
ThrewError(type, what) == [ok |-> FALSE, obj |-> <<>>, type |-> type, what |-> what]

\* A loadSchema that reads the file at every call.
loadSchema_Unmemoized(schemaPath) ==
  IF Open(schemaPath).kind = "json" THEN Returned(Open(schemaPath).json)
  ELSE ThrewError("std::runtime_error", <<"Error loading schema file: ">>)

\* loadSchema(schemaPath): the cached schema once one is loaded, else the
\* file's; a file that cannot be opened or parsed throws and leaves the
\* cache as it was.
loadSchema(schemaPath) ==
  IF schemaLoaded THEN Returned(cachedSchema)
  ELSE IF Open(schemaPath).kind = "json" THEN Returned(Open(schemaPath).json)
  ELSE IF Open(schemaPath).kind = "missing"
       THEN ThrewError("std::runtime_error",
                       <<"Error loading schema file: ", "Failed to open schema file: ",
                         schemaPath>>)
       ELSE ThrewError("std::runtime_error",
                       <<"Error loading schema file: ", "parse_error">>)

\* A file opened for reading, and one opened for writing.
OpenedIn(path) == [path |-> path, mode |-> "in"]
OpenedOut(path) == [path |-> path, mode |-> "out"]

\* The files loadSchema(schemaPath) opens: the schema file, unless a schema
\* is loaded.
loadSchema_opened(schemaPath) == IF schemaLoaded THEN <<>> ELSE <<OpenedIn(schemaPath)>>

\* How many schema files loadSchema(schemaPath) parses to the end.
loadSchema_parsed(schemaPath) ==
  IF ~schemaLoaded /\ Open(schemaPath).kind = "json" THEN 1 ELSE 0

\* The threads that call loadSchema at the same time, and a thread that is
\* not inside loadSchema: where it is (pc), the path it was called with,
\* whether it found a schema loaded, whether it has ever parsed a schema
\* file to the end, and what its last call returned or threw.
Threads == {1, 2}
IdleThread ==
  [pc |-> "idle", schemaPath |-> "", foundLoaded |-> FALSE, parsed |-> FALSE,
   result |-> Returned(<<>>)]

\* A cachedSchema that two threads wrote, or one wrote and one copied, at
\* the same time: the statics are unguarded, the behaviour is undefined.
Torn == [t |-> "torn", v |-> <<>>]

\* A loadSchema that does not look at schemaLoaded.
AfterTest_Always(loaded) == "read"

\* if (!schemaLoaded): where a thread goes on, given what it read.
AfterTest(loaded) == IF loaded THEN "return" ELSE "read"

\* A validator that does not look for the vocabularies.
PresenceError_NoVocabularies(j) ==
  IF ~contains(j, "mzQC") THEN "missing root 'mzQC' object"
  ELSE IF ~contains(at(j, "mzQC"), "version") \/ ~contains(at(j, "mzQC"), "creationDate")
       THEN "missing required properties in mzQC object"
  ELSE IF ~contains(at(j, "mzQC"), "runQualities") /\ ~contains(at(j, "mzQC"), "setQualities")
       THEN "either runQualities or setQualities must be present"
  ELSE ""

\* A validator with one reason for all that can be missing in the root object.
PresenceError_OneReason(j) ==
  IF ~contains(j, "mzQC") THEN "missing root 'mzQC' object"
  ELSE IF \/ ~contains(at(j, "mzQC"), "version") \/ ~contains(at(j, "mzQC"), "creationDate")
          \/ ~contains(at(j, "mzQC"), "runQualities") /\ ~contains(at(j, "mzQC"), "setQualities")
          \/ ~contains(at(j, "mzQC"), "controlledVocabularies")
       THEN "missing required properties in mzQC object"
  ELSE ""

\* A validator that looks for the vocabularies before the quality lists.
PresenceError_VocabulariesFirst(j) ==
  IF ~contains(j, "mzQC") THEN "missing root 'mzQC' object"
  ELSE IF ~contains(at(j, "mzQC"), "version") \/ ~contains(at(j, "mzQC"), "creationDate")
       THEN "missing required properties in mzQC object"
  ELSE IF ~contains(at(j, "mzQC"), "controlledVocabularies")
       THEN "controlledVocabularies must be present"
  ELSE IF ~contains(at(j, "mzQC"), "runQualities") /\ ~contains(at(j, "mzQC"), "setQualities")
       THEN "either runQualities or setQualities must be present"
  ELSE ""

\* The presence checks of validateAgainstSchema, in order: the reason of the
\* first that fails, "" when none does.
PresenceError(j) ==
  IF ~contains(j, "mzQC") THEN "missing root 'mzQC' object"
  ELSE IF ~contains(at(j, "mzQC"), "version") \/ ~contains(at(j, "mzQC"), "creationDate")
       THEN "missing required properties in mzQC object"
  ELSE IF ~contains(at(j, "mzQC"), "runQualities") /\ ~contains(at(j, "mzQC"), "setQualities")
       THEN "either runQualities or setQualities must be present"
  ELSE IF ~contains(at(j, "mzQC"), "controlledVocabularies")
       THEN "controlledVocabularies must be present"
  ELSE ""

\* validateAgainstSchema(j, schemaPath): the verdict, and the line written to
\* std::cerr (<<>>: none). An exception of loadSchema is caught and reported.
validateAgainstSchema(j, schemaPath) ==
  IF ~loadSchema(schemaPath).ok
  THEN [valid |-> FALSE,
        line |-> <<"Schema validation error: ">> \o loadSchema(schemaPath).what]
  ELSE IF PresenceError(j) # ""
       THEN [valid |-> FALSE, line |-> <<"Schema validation error: ", PresenceError(j)>>]
       ELSE [valid |-> TRUE, line |-> <<>>]

\* Whether fromFile(filepath, schemaPath) gets as far as the validator.
Validates(filepath, schemaPath) == Open(filepath).kind = "json" /\ schemaPath # ""

\* A type_error of the decoder leaves fromFile as it is.
Uncaught(r) == IF r.ok THEN r ELSE ThrewError("nlohmann::json::type_error", <<>>)

\* MzQCFile::fromFile(filepath, schemaPath) at clock value `now`: open, parse,
\* validate if a schema path is given, decode.
MzQCFile_fromFile(filepath, schemaPath, now) ==
  IF Open(filepath).kind = "missing"
  THEN ThrewError("std::runtime_error", <<"Could not open file: ", filepath>>)
  ELSE IF Open(filepath).kind = "malformed"
  THEN ThrewError("std::runtime_error", <<"Error parsing JSON from file: ", "parse_error">>)
  ELSE IF schemaPath # "" /\ ~validateAgainstSchema(Open(filepath).json, schemaPath).valid
  THEN ThrewError("std::runtime_error", <<"File does not conform to mzQC schema">>)
  ELSE Uncaught(MzQCFile_fromJsonStatic(Open(filepath).json, now))

\* std::ofstream file(filepath) opens unless the directory is missing.
Writable(filepath) == filepath # "nodir/out.mzqc"

\* Whether toFile(filepath, schemaPath) of the document gets past the
\* validator: no schema path is given, or the encoding is valid.
toFile_passes(self, schemaPath) ==
  schemaPath = "" \/ validateAgainstSchema(MzQCFile_toJson(self), schemaPath).valid

\* MzQCFile::toFile(filepath, schemaPath): encode, validate if a schema path
\* is given, open the file, write.
MzQCFile_toFile(self, filepath, schemaPath) ==
  IF ~toFile_passes(self, schemaPath)
  THEN ThrewError("std::runtime_error", <<"Generated mzQC does not conform to schema">>)
  ELSE IF ~Writable(filepath)
  THEN ThrewError("std::runtime_error", <<"Could not open file for writing: ", filepath>>)
  ELSE Returned(<<>>)

\* A toFile that opens the file before it validates.
toFile_files_OpenedFirst(self, filepath, schemaPath) ==
  IF ~Writable(filepath) THEN files
  ELSE [p \in DOMAIN files \cup {filepath} |->
          IF p # filepath THEN files[p]
          ELSE IF toFile_passes(self, schemaPath) THEN JsonFile(MzQCFile_toJson(self))
          ELSE Garbage]

\* The file system after toFile(filepath, schemaPath): the file holds the
\* encoding (j.dump(2), which parses to j) if toFile got to write it.
toFile_files(self, filepath, schemaPath) ==
  IF ~MzQCFile_toFile(self, filepath, schemaPath).ok THEN files
  ELSE [p \in DOMAIN files \cup {filepath} |->
          IF p = filepath THEN JsonFile(MzQCFile_toJson(self)) ELSE files[p]]

(***************************************************************************)
(* CvTermCache: the scanner of ontology files. A file of ontology text     *)
(* holds lines; a line is a std::string.                                   *)
(***************************************************************************)
TextFile(lines) == [kind |-> "text", json |-> JNull, lines |-> lines]

\* CvTermDetails, default-initialised.
CvTermDetails ==
  [accession |-> <<>>, name |-> <<>>, definition |-> <<>>, relationships |-> <<>>,
   parentTerms |-> <<>>, valueType |-> <<>>, unit |-> <<>>]

\* std::map<std::string, CvTermDetails>, empty; and m[key] = term.
EmptyMap == [key \in {} |-> CvTermDetails]
Assigned(m, key, term) ==
  [k \in DOMAIN m \cup {key} |-> IF k = key THEN term ELSE m[k]]

\* A CvTermCache as constructed.
NewCvTermCache == [currentOboFile |-> "", termCache |-> EmptyMap]

\* line.find(prefix) == 0, and line.substr(n).
StartsWith(line, prefix) ==
  Len(line) >= Len(prefix) /\ SubSeq(line, 1, Len(prefix)) = prefix
substr(line, n) == SubSeq(line, n + 1, Len(line))

TermMarker == <<"[", "T", "e", "r", "m", "]">>
IdPrefix == <<"i", "d", ":">>
NamePrefix == <<"n", "a", "m", "e", ":">>
DefPrefix == <<"d", "e", "f", ":">>
IsAPrefix == <<"i", "s", "_", "a", ":">>

\* The scanner's locals and the cache it fills, before the first line.
ScanStart(termCache) ==
  [currentTerm |-> CvTermDetails, inTermDef |-> FALSE, termCache |-> termCache]

\* if (inTermDef && !currentTerm.accession.empty()) termCache[accession] = currentTerm
Flushed(st) ==
  IF st.inTermDef /\ st.currentTerm.accession # <<>>
  THEN Assigned(st.termCache, st.currentTerm.accession, st.currentTerm)
  ELSE st.termCache

\* A scanner that stores nothing at the end of the input.
Flushed_Never(st) == st.termCache

\* if (...) termCache[...] = currentTerm, at the end of the input.
FlushedAtEnd(st) == Flushed(st)

\* The record after a line inside a term: the prefix the line starts with
\* chooses the field.
FieldSet(term, line) ==
  IF StartsWith(line, IdPrefix) THEN [term EXCEPT !.accession = substr(line, 3)]
  ELSE IF StartsWith(line, NamePrefix) THEN [term EXCEPT !.name = substr(line, 5)]
  ELSE IF StartsWith(line, DefPrefix) THEN [term EXCEPT !.definition = substr(line, 4)]
  ELSE IF StartsWith(line, IsAPrefix)
       THEN [term EXCEPT !.parentTerms = Append(@, substr(line, 5))]
  ELSE term

\* One turn of the while loop: the scanner after the line.
ScanLine(st, line) ==
  IF line = <<>> \/ Head(line) = "!" THEN st
  ELSE IF line = TermMarker
  THEN [currentTerm |-> CvTermDetails, inTermDef |-> TRUE, termCache |-> Flushed(st)]
  ELSE IF ~st.inTermDef THEN st
  ELSE [st EXCEPT !.currentTerm = FieldSet(@, line)]

\* The scanner after the lines, in order.
RECURSIVE ScanLines(_, _)
ScanLines(st, lines) ==
  IF lines = <<>> THEN st ELSE ScanLines(ScanLine(st, Head(lines)), Tail(lines))

\* The cache after parseOboFile has read the file's lines into it.
Parsed(termCache, lines) == FlushedAtEnd(ScanLines(ScanStart(termCache), lines))

\* CvTermCache::parseOboFile(filename): the cache after it, and what it
\* returns: -1 if the file cannot be opened, else the size of the cache.
parseOboFile_cache(self, filename) ==
  IF Open(filename).kind # "text" THEN self.termCache
  ELSE Parsed(self.termCache, Open(filename).lines)
parseOboFile(self, filename) ==
  IF Open(filename).kind # "text" THEN -1
  ELSE Cardinality(DOMAIN parseOboFile_cache(self, filename))

\* CvTermCache::loadFromOboFile(filename): the object after the call.
loadFromOboFile(self, filename) ==
  [currentOboFile |-> filename, termCache |-> parseOboFile_cache(self, filename)]

(***************************************************************************)
(* The inputs the operations are called with.                              *)
(***************************************************************************)
\* Metric payloads of every shape: null, scalars, a list, a map, mixed nesting.
PayloadRT == JObject([RT |-> JString(<<"1", "2", ".", "3">>)])
PayloadMixed ==
  JObject([a |-> JArray(<<JObject([b |-> JNull]), JArray(<<>>), JFloat(5)>>),
           c |-> JBoolean(FALSE)])
Payloads ==
  <<JInteger(42), JFloat(123), JString(<<"s">>), JBoolean(TRUE), JString(<<>>),
    JArray(<<JInteger(1), JFloat(10), JString(<<"1">>)>>), JArray(<<>>),
    PayloadRT, EmptyObject, PayloadMixed, JNull>>

MetricWith(payload) == QualityMetric(<<"Q">>, <<"n">>, <<"d">>, payload, <<"u">>)
\* One metric per payload, then one with only the required fields, then a blank one.
Metrics ==
  [i \in 1..Len(Payloads) |-> MetricWith(Payloads[i])]
    \o <<QualityMetric(<<"Q">>, <<"n">>, <<>>, JInteger(0), <<>>), NewQualityMetric>>

CvParameterFull == CvParameter(<<"M">>, <<"f">>, <<"v">>, <<"P">>)
CvParameterPlain == CvParameter(<<"M">>, <<"f">>, <<>>, <<>>)
InputFileFull ==
  InputFile(<<"l">>, <<"i">>, <<CvParameterFull>>, <<CvParameterPlain, CvParameterFull>>)
InputFilePlain == InputFile(<<"l">>, <<>>, <<>>, <<>>)
SoftwareFull == AnalysisSoftware(<<"M">>, <<"t">>, <<"1">>, <<"h">>)
SoftwarePlain == AnalysisSoftware(<<"M">>, <<"t">>, <<>>, <<>>)

RunQualityFull ==
  RunQuality(<<"R">>, <<InputFileFull, InputFilePlain>>,
             <<SoftwareFull, SoftwarePlain>>, Metrics)
RunQualityOther == RunQuality(<<"B">>, <<InputFilePlain>>, <<>>, <<MetricWith(PayloadRT)>>)
SetQualityFull ==
  SetQuality(<<"S">>, <<<<"R">>, <<>>, <<"B">>>>, <<MetricWith(PayloadMixed), NewQualityMetric>>)

VocabularyFull == [ControlledVocabulary(<<"P">>, <<"h">>, <<"4">>) EXCEPT !.id = <<"c">>]
VocabularyBuilt == ControlledVocabulary(<<"Q">>, <<>>, <<"0">>)

\* Constructor arguments: every optional argument both empty and not.
ConstructorArgs ==
  {DefaultArgs,
   [creationDate |-> <<>>, version |-> DefaultVersion, contactName |-> <<"n">>,
    contactAddress |-> <<"a">>, description |-> <<"d">>,
    runQualities |-> <<RunQualityFull>>, setQualities |-> <<SetQualityFull>>],
   [creationDate |-> <<"x">>, version |-> <<>>, contactName |-> <<"n">>,
    contactAddress |-> <<>>, description |-> <<>>,
    runQualities |-> <<NewRunQuality, RunQualityFull>>, setQualities |-> <<>>],
   [creationDate |-> <<"x">>, version |-> DefaultVersion, contactName |-> <<>>,
    contactAddress |-> <<"a">>, description |-> <<>>,
    runQualities |-> <<>>, setQualities |-> <<NewSetQuality>>],
   [creationDate |-> <<>>, version |-> <<"2">>, contactName |-> <<"n">>,
    contactAddress |-> <<"a">>, description |-> <<"d">>,
    runQualities |-> <<RunQualityOther>>, setQualities |-> <<SetQualityFull, NewSetQuality>>],
   [creationDate |-> <<"x">>, version |-> DefaultVersion, contactName |-> <<>>,
    contactAddress |-> <<>>, description |-> <<"d">>,
    runQualities |-> <<>>, setQualities |-> <<>>]}

\* What a caller may assign to the public field controlledVocabularies.
VocabularyLists ==
  {<<>>, <<VocabularyFull>>, <<VocabularyBuilt, VocabularyFull>>,
   <<NewControlledVocabulary>>}

\* Parsed documents that reach the decoder and the validator from outside,
\* as the object under the root key.
InnerFull ==
  at(MzQCFile_toJson(
       [MzQCFile([DefaultArgs EXCEPT !.creationDate = <<"x">>, !.contactName = <<"n">>,
                                     !.contactAddress = <<"a">>, !.description = <<"d">>,
                                     !.runQualities = <<RunQualityOther>>,
                                     !.setQualities = <<SetQualityFull>>], 0)
          EXCEPT !.controlledVocabularies = <<VocabularyFull>>]), "mzQC")
\* InnerFull without the key k.
Without(o, k) == JObject([n \in DOMAIN o.v \ {k} |-> o.v[n]])
\* o with the value x under key k.
With(o, k, x) == JObject([n \in DOMAIN o.v \cup {k} |-> IF n = k THEN x ELSE o.v[n]])
InnerMinimal == JObject([version |-> JString(<<"1">>), creationDate |-> JString(<<"y">>)])
Inners ==
  {InnerFull,
   Without(InnerFull, "creationDate"),
   InnerMinimal,
   EmptyObject,
   \* entities with absent members
   With(With(InnerMinimal, "runQualities",
             JArray(<<JObject([inputFiles |-> JArray(<<EmptyObject>>),
                               metrics |-> JArray(<<EmptyObject>>)])>>)),
        "setQualities", JArray(<<EmptyObject>>)),
   \* members of an unexpected type
   With(InnerMinimal, "creationDate", JInteger(5)),
   With(InnerFull, "runQualities",
        JArray(<<JObject([label |-> JString(<<"R">>)]), JString(<<"q">>)>>)),
   \* an object that has a key mzQC of its own
   With(InnerMinimal, "mzQC", JObject([creationDate |-> JString(<<"z">>)]))}

Wrapped(inner) == JObject([mzQC |-> inner])
WireDocs == Inners \cup {Wrapped(d) : d \in Inners} \cup {JArray(<<>>), Wrapped(JNull)}

\* The documents decoded into a document that has contents already.
InPlaceDocs ==
  {Wrapped(InnerFull),
   Wrapped(Without(InnerFull, "creationDate")),
   Wrapped(Without(InnerFull, "setQualities")),
   InnerMinimal,
   Wrapped(With(With(InnerMinimal, "runQualities", EmptyObject),
                "controlledVocabularies", JString(<<"c">>))),
   Wrapped(With(InnerMinimal, "version", JInteger(1))),
   With(InnerFull, "runQualities",
        JArray(<<JObject([label |-> JString(<<"R">>)]), JString(<<"q">>)>>)),
   JArray(<<>>)}

\* A document that has every key the validator looks for, none holding
\* what the document model expects there.
IllTypedComplete ==
  Wrapped(JObject([version |-> JInteger(1), creationDate |-> JNull,
                   controlledVocabularies |-> JString(<<"c">>),
                   setQualities |-> JBoolean(TRUE)]))

\* The documents the validator is called with.
ValidatedDocs ==
  {Wrapped(InnerFull),
   Wrapped(Without(InnerFull, "version")),
   Wrapped(Without(InnerFull, "creationDate")),
   Wrapped(Without(InnerFull, "controlledVocabularies")),
   Wrapped(Without(InnerFull, "runQualities")),
   Wrapped(Without(Without(InnerFull, "runQualities"), "setQualities")),
   Wrapped(InnerMinimal),
   IllTypedComplete,
   InnerFull,
   Wrapped(JNull),
   JArray(<<>>)}

\* The schema paths the validator is called with, and those a load is
\* called with ("": no validation).
SchemaPaths == {"schema.json", "missing.json", "bad.json"}
LoadSchemaPaths == {"", "schema.json", "missing.json"}

\* The paths a load is called with, and what the file at "in.mzqc" can hold.
LoadPaths == {"in.mzqc", "none.mzqc"}
FileContents ==
  {Garbage,
   JsonFile(Wrapped(InnerFull)),
   JsonFile(Wrapped(Without(InnerFull, "controlledVocabularies"))),
   JsonFile(Without(InnerFull, "controlledVocabularies")),
   JsonFile(Wrapped(With(InnerMinimal, "version", JInteger(1)))),
   JsonFile(JArray(<<>>))}

\* The paths a save is called with; there is no directory "nodir".
SavePaths == {"in.mzqc", "nodir/out.mzqc"}

\* Blocks of ontology lines: lines that belong to no term of their own (an
\* id: line among them), two terms, a term without an id: line (a blank
\* line and a comment in it), a second definition of the first term, and a
\* term whose id: line is empty.
Blocks ==
  <<<<<<"f", "o", "r", "m", "a", "t">>, IdPrefix \o <<"X">>>>,
    <<TermMarker, IdPrefix \o <<"A">>, NamePrefix \o <<"a">>>>,
    <<TermMarker, <<>>, IdPrefix \o <<"B">>, IsAPrefix \o <<"A">>, IsAPrefix \o <<"X">>>>,
    <<TermMarker, <<>>, <<"!", "c">>, NamePrefix \o <<"n">>>>,
    <<TermMarker, IdPrefix \o <<"A">>, NamePrefix \o <<"z">>, DefPrefix \o <<"d">>>>,
    <<TermMarker, IdPrefix>>>>

\* The lines of the blocks chosen, in order.
RECURSIVE Joined(_)
Joined(choice) ==
  IF choice = <<>> THEN <<>> ELSE Blocks[Head(choice)] \o Joined(Tail(choice))

\* The ontology texts: up to MaxBlocks blocks each.
OboTexts ==
  {Joined(choice) : choice \in UNION {[1..n -> 1..Len(Blocks)] : n \in 0..MaxBlocks}}

\* The paths a cache is loaded from; no file is ever at "missing.obo".
OboPaths == {"terms.obo", "missing.obo"}

(***************************************************************************)
(* State.                                                                  *)
(*   doc    the MzQCFile the caller holds                                  *)
(*   wire   the nlohmann::json value toJson returned last                  *)
(*   clock  system_clock::now(), in ticks                                  *)
(*   call   the last call: [op, arg, at]                                   *)
(*   ret    what the last call returned or threw                           *)
(*   prev   the call before the last, its result and std::cerr after it,   *)
(*          when both were calls of fromJsonStatic or both of              *)
(*          validateAgainstSchema                                          *)
(*   schemaLoaded, cachedSchema   loadSchema's static locals               *)
(*   cerr   the last line written to std::cerr                             *)
(*   files  the file system: path -> content                               *)
(*   opened the files the last call opened, in order: [path, mode]         *)
(*   schemaReads  how many times loadSchema has parsed a schema file       *)
(*   cvTermCache  a CvTermCache: [currentOboFile, termCache]               *)
(*   threads      the threads inside loadSchema: thread -> its position    *)
(***************************************************************************)
Nothing == Returned(<<>>)
\* A call that read the clock (at: the value it read), and one that did not.
Call(op, arg) == [op |-> op, arg |-> arg, at |-> clock]
CallUntimed(op, arg) == [op |-> op, arg |-> arg, at |-> 0]
NoCall == [op |-> "", arg |-> <<>>, at |-> 0]
NoPrev == [call |-> NoCall, ret |-> Nothing, cerr |-> <<>>]
\* The last call, its result and std::cerr after it, if it was a call of op.
Last(op) ==
  IF call.op = op THEN [call |-> call, ret |-> ret, cerr |-> cerr] ELSE NoPrev

\* The files there are when the program starts: a schema, and a file that
\* holds no JSON.
InitialFiles ==
  [p \in {"schema.json", "bad.json"} |->
     IF p = "schema.json" THEN JsonFile(EmptyObject) ELSE Garbage]

Init ==
  /\ clock \in ClockStarts
  /\ doc = NewMzQCFile(clock)
  /\ wire = JNull
  /\ call = [op |-> "MzQCFile", arg |-> DefaultArgs, at |-> clock]
  /\ ret = Nothing
  /\ prev = NoPrev
  /\ schemaLoaded = FALSE
  /\ cachedSchema = JNull
  /\ cerr = <<>>
  /\ files = InitialFiles
  /\ opened = <<>>
  /\ schemaReads = 0
  /\ cvTermCache = NewCvTermCache
  /\ threads = [t \in Threads |-> IdleThread]

\* Time passes.
Tick ==
  /\ \E start \in ClockStarts : clock \in start..(start + MaxTicks - 1)
  /\ clock' = clock + 1
  /\ UNCHANGED <<doc, wire, call, ret, prev, schemaLoaded, cachedSchema, cerr, files,
                 opened, schemaReads, cvTermCache, threads>>

\* doc = MzQCFile(creationDate, ..., setQualities)
Construct(a) ==
  /\ doc' = MzQCFile(a, clock)
  /\ call' = Call("MzQCFile", a)
  /\ ret' = Nothing
  /\ prev' = NoPrev
  /\ UNCHANGED <<wire, clock, schemaLoaded, cachedSchema, cerr, files,
                 opened, schemaReads, cvTermCache, threads>>

\* doc.controlledVocabularies = cvs
SetControlledVocabularies(cvs) ==
  /\ doc' = [doc EXCEPT !.controlledVocabularies = cvs]
  /\ call' = CallUntimed("controlledVocabularies", cvs)
  /\ ret' = Nothing
  /\ prev' = NoPrev
  /\ UNCHANGED <<wire, clock, schemaLoaded, cachedSchema, cerr, files,
                 opened, schemaReads, cvTermCache, threads>>

\* wire = doc.toJson()
ToJson ==
  /\ wire' = MzQCFile_toJson(doc)
  /\ call' = CallUntimed("toJson", <<>>)
  /\ ret' = Nothing
  /\ UNCHANGED <<doc, clock, schemaLoaded, cachedSchema, cerr, files,
                 opened, schemaReads, cvTermCache, threads>>
  /\ prev' = NoPrev

\* MzQCFile::fromJsonStatic(j)
FromJsonStatic(j) ==
  /\ ret' = MzQCFile_fromJsonStatic(j, clock)
  /\ call' = Call("fromJsonStatic", j)
  /\ prev' = Last("fromJsonStatic")
  /\ UNCHANGED <<doc, wire, clock, schemaLoaded, cachedSchema, cerr, files,
                 opened, schemaReads, cvTermCache, threads>>

\* Building documents, encoding them and decoding the encodings.
NextCodec ==
  \/ Tick
  \/ \E a \in ConstructorArgs : Construct(a)
  \/ \E cvs \in VocabularyLists : SetControlledVocabularies(cvs)
  \/ ToJson
  \/ FromJsonStatic(wire)

SpecCodec == Init /\ [][NextCodec]_vars

\* doc.fromJson(j)
FromJson(j) ==
  /\ \E r \in {MzQCFile_fromJson(doc, j, clock)} :
       /\ doc' = r.obj
       /\ ret' = [ok |-> r.ok, obj |-> <<>>]
  /\ call' = Call("fromJson", j)
  /\ prev' = NoPrev
  /\ UNCHANGED <<wire, clock, schemaLoaded, cachedSchema, cerr, files,
                 opened, schemaReads, cvTermCache, threads>>

\* What a caller decodes into an entity of the document.
EntityDocs == {JObject([name |-> JString(<<"e">>)])}

\* doc.runQualities[0]->metrics[0]->fromJson(j)
MetricFromJson(j) ==
  /\ doc.runQualities # <<>> /\ doc.runQualities[1].metrics # <<>>
  /\ \E r \in {QualityMetric_fromJson(doc.runQualities[1].metrics[1], j)} :
        /\ doc' = [doc EXCEPT !.runQualities[1].metrics[1] = r.obj]
        /\ ret' = [ok |-> r.ok, obj |-> <<>>]
  /\ call' = CallUntimed("QualityMetric::fromJson", j)
  /\ prev' = NoPrev
  /\ UNCHANGED <<wire, clock, schemaLoaded, cachedSchema, cerr, files,
                 opened, schemaReads, cvTermCache, threads>>

\* doc.runQualities[0]->inputFiles[0]->fromJson(j)
InputFileFromJson(j) ==
  /\ doc.runQualities # <<>> /\ doc.runQualities[1].inputFiles # <<>>
  /\ \E r \in {InputFile_fromJson(doc.runQualities[1].inputFiles[1], j)} :
        /\ doc' = [doc EXCEPT !.runQualities[1].inputFiles[1] = r.obj]
        /\ ret' = [ok |-> r.ok, obj |-> <<>>]
  /\ call' = CallUntimed("InputFile::fromJson", j)
  /\ prev' = NoPrev
  /\ UNCHANGED <<wire, clock, schemaLoaded, cachedSchema, cerr, files,
                 opened, schemaReads, cvTermCache, threads>>

\* Building documents and decoding documents from outside into them.
NextInPlace ==
  \/ \E j \in EntityDocs : MetricFromJson(j)
  \/ \E j \in EntityDocs : InputFileFromJson(j)
  \/ Tick
  \/ \E a \in ConstructorArgs : Construct(a)
  \/ \E cvs \in VocabularyLists : SetControlledVocabularies(cvs)
  \/ \E j \in InPlaceDocs : FromJson(j)

SpecInPlace == Init /\ [][NextInPlace]_vars

\* Decoding documents from outside into new documents, as time passes.
NextStatic ==
  \/ Tick
  \/ \E j \in WireDocs : FromJsonStatic(j)

SpecStatic == Init /\ [][NextStatic]_vars

\* Another program writes the file at "in.mzqc".
Store(content) ==
  /\ files' = [p \in DOMAIN files \cup {"in.mzqc"} |->
                 IF p = "in.mzqc" THEN content ELSE files[p]]
  /\ call' = NoCall
  /\ ret' = Nothing
  /\ opened' = <<>>
  /\ prev' = NoPrev
  /\ UNCHANGED <<doc, wire, clock, schemaLoaded, cachedSchema, cerr, schemaReads, cvTermCache, threads>>

\* validateAgainstSchema(j, schemaPath)
Validate(j, schemaPath) ==
  /\ ret' = Returned(validateAgainstSchema(j, schemaPath).valid)
  /\ cerr' = IF validateAgainstSchema(j, schemaPath).valid THEN cerr
             ELSE validateAgainstSchema(j, schemaPath).line
  /\ schemaLoaded' = loadSchema(schemaPath).ok
  /\ cachedSchema' = IF loadSchema(schemaPath).ok THEN loadSchema(schemaPath).obj
                     ELSE cachedSchema
  /\ opened' = loadSchema_opened(schemaPath)
  /\ schemaReads' = schemaReads + loadSchema_parsed(schemaPath)
  /\ call' = CallUntimed("validateAgainstSchema", [j |-> j, schemaPath |-> schemaPath])
  /\ prev' = Last("validateAgainstSchema")
  /\ UNCHANGED <<doc, wire, clock, files, cvTermCache, threads>>

\* MzQCFile::fromFile(filepath, schemaPath)
FromFile(filepath, schemaPath) ==
  /\ ret' = MzQCFile_fromFile(filepath, schemaPath, clock)
  /\ cerr' = IF Validates(filepath, schemaPath)
                  /\ ~validateAgainstSchema(Open(filepath).json, schemaPath).valid
             THEN validateAgainstSchema(Open(filepath).json, schemaPath).line
             ELSE cerr
  /\ schemaLoaded' = IF Validates(filepath, schemaPath) THEN loadSchema(schemaPath).ok
                     ELSE schemaLoaded
  /\ cachedSchema' = IF Validates(filepath, schemaPath) /\ loadSchema(schemaPath).ok
                     THEN loadSchema(schemaPath).obj ELSE cachedSchema
  /\ opened' = <<OpenedIn(filepath)>>
                \o (IF Validates(filepath, schemaPath) THEN loadSchema_opened(schemaPath)
                    ELSE <<>>)
  /\ schemaReads' = schemaReads + (IF Validates(filepath, schemaPath)
                                   THEN loadSchema_parsed(schemaPath) ELSE 0)
  /\ call' = Call("fromFile", [filepath |-> filepath, schemaPath |-> schemaPath])
  /\ prev' = NoPrev
  /\ UNCHANGED <<doc, wire, clock, files, cvTermCache, threads>>

\* Validating documents, and loading them from files.
NextValidate ==
  \/ \E j \in ValidatedDocs, schemaPath \in SchemaPaths : Validate(j, schemaPath)
  \/ \E filepath \in LoadPaths, schemaPath \in LoadSchemaPaths : FromFile(filepath, schemaPath)
  \/ \E content \in FileContents : Store(content)

SpecValidate == Init /\ [][NextValidate]_vars

\* doc.toFile(filepath, schemaPath)
ToFile(filepath, schemaPath) ==
  /\ ret' = MzQCFile_toFile(doc, filepath, schemaPath)
  /\ files' = toFile_files(doc, filepath, schemaPath)
  /\ cerr' = IF toFile_passes(doc, schemaPath) THEN cerr
             ELSE validateAgainstSchema(MzQCFile_toJson(doc), schemaPath).line
  /\ schemaLoaded' = IF schemaPath # "" THEN loadSchema(schemaPath).ok ELSE schemaLoaded
  /\ cachedSchema' = IF schemaPath # "" /\ loadSchema(schemaPath).ok
                     THEN loadSchema(schemaPath).obj ELSE cachedSchema
  /\ opened' = (IF schemaPath # "" THEN loadSchema_opened(schemaPath) ELSE <<>>)
                \o (IF toFile_passes(doc, schemaPath) THEN <<OpenedOut(filepath)>>
                    ELSE <<>>)
  /\ schemaReads' = schemaReads + (IF schemaPath # "" THEN loadSchema_parsed(schemaPath)
                                   ELSE 0)
  /\ call' = CallUntimed("toFile", [filepath |-> filepath, schemaPath |-> schemaPath])
  /\ prev' = NoPrev
  /\ UNCHANGED <<doc, wire, clock, cvTermCache, threads>>

\* Building documents (with no quality list, with one of either kind; with
\* and without vocabularies), saving them and loading what was saved.
NextSave ==
  \/ \E a \in {c \in ConstructorArgs : c.creationDate # <<>>} \cup {DefaultArgs} :
       Construct(a)
  \/ \E cvs \in {<<>>, <<VocabularyFull>>} : SetControlledVocabularies(cvs)
  \/ \E filepath \in SavePaths, schemaPath \in LoadSchemaPaths : ToFile(filepath, schemaPath)
  \/ \E schemaPath \in LoadSchemaPaths : FromFile("in.mzqc", schemaPath)

SpecSave == Init /\ [][NextSave]_vars

\* A thread calls loadSchema(schemaPath) and reads schemaLoaded.
CallLoadSchema(t, schemaPath) ==
  /\ threads[t].pc = "idle"
  /\ threads' = [threads EXCEPT ![t] = [pc |-> AfterTest(schemaLoaded),
                                         schemaPath |-> schemaPath,
                                         foundLoaded |-> schemaLoaded,
                                         parsed |-> @.parsed, result |-> Nothing]]
  /\ UNCHANGED <<doc, wire, clock, call, ret, prev, schemaLoaded, cachedSchema, cerr, files,
                 opened, schemaReads, cvTermCache>>

\* The thread opens the schema file and parses it into cachedSchema; a file
\* that cannot be opened or parsed throws.
ReadSchema(t) ==
  /\ threads[t].pc = "read"
  /\ opened' = <<OpenedIn(threads[t].schemaPath)>>
  /\ IF Open(threads[t].schemaPath).kind = "json"
     THEN /\ cachedSchema' \in
               {Open(threads[t].schemaPath).json}
                 \cup {Torn : u \in {u \in Threads \ {t} : threads[u].pc = "read"}}
          /\ schemaReads' = schemaReads + 1
          /\ threads' = [threads EXCEPT ![t].pc = "set", ![t].parsed = TRUE]
     ELSE /\ threads' =
               [threads EXCEPT
                  ![t].pc = "idle",
                  ![t].result =
                    IF Open(threads[t].schemaPath).kind = "missing"
                    THEN ThrewError("std::runtime_error",
                                    <<"Error loading schema file: ",
                                      "Failed to open schema file: ", threads[t].schemaPath>>)
                    ELSE ThrewError("std::runtime_error",
                                    <<"Error loading schema file: ", "parse_error">>)]
          /\ UNCHANGED <<cachedSchema, schemaReads>>
  /\ UNCHANGED <<doc, wire, clock, call, ret, prev, schemaLoaded, cerr, files, cvTermCache>>

\* schemaLoaded = true
SetLoaded(t) ==
  /\ threads[t].pc = "set"
  /\ schemaLoaded' = TRUE
  /\ threads' = [threads EXCEPT ![t].pc = "return"]
  /\ UNCHANGED <<doc, wire, clock, call, ret, prev, cachedSchema, cerr, files,
                 opened, schemaReads, cvTermCache>>

\* return cachedSchema: a copy, made while another thread may be writing it.
ReturnSchema(t) ==
  /\ threads[t].pc = "return"
  /\ \E payload \in {cachedSchema}
                      \cup {Torn : u \in {u \in Threads \ {t} : threads[u].pc = "read"}} :
       threads' = [threads EXCEPT ![t].pc = "idle", ![t].result = Returned(payload)]
  /\ UNCHANGED <<doc, wire, clock, call, ret, prev, schemaLoaded, cachedSchema, cerr, files,
                 opened, schemaReads, cvTermCache>>

\* Two threads calling loadSchema, their steps in any order.
NextRace ==
  \E t \in Threads :
    \/ \E schemaPath \in SchemaPaths : CallLoadSchema(t, schemaPath)
    \/ ReadSchema(t)
    \/ SetLoaded(t)
    \/ ReturnSchema(t)

SpecRace == Init /\ [][NextRace]_vars

\* Another program writes the ontology file at "terms.obo", between two
\* calls (of two writes in a row only the second would be seen).
StoreText(lines) ==
  /\ call.op # ""
  /\ files' = [p \in DOMAIN files \cup {"terms.obo"} |->
                 IF p = "terms.obo" THEN TextFile(lines) ELSE files[p]]
  /\ call' = NoCall
  /\ ret' = Nothing
  /\ opened' = <<>>
  /\ prev' = NoPrev
  /\ UNCHANGED <<doc, wire, clock, schemaLoaded, cachedSchema, cerr, schemaReads,
                 cvTermCache, threads>>

\* CvTermCache::loadFromOboFile(filename)
LoadFromOboFile(filename) ==
  /\ cvTermCache' = loadFromOboFile(cvTermCache, filename)
  /\ ret' = Returned(parseOboFile(cvTermCache, filename))
  /\ opened' = <<OpenedIn(filename)>>
  /\ call' = CallUntimed("loadFromOboFile", [filename |-> filename])
  /\ prev' = NoPrev
  /\ UNCHANGED <<doc, wire, clock, schemaLoaded, cachedSchema, cerr, files, schemaReads,
                 threads>>

\* Loading one CvTermCache from ontology files, again and again.
NextTerms ==
  \/ \E filename \in OboPaths : LoadFromOboFile(filename)
  \/ \E lines \in OboTexts : StoreText(lines)

SpecTerms == Init /\ [][NextTerms]_vars

(***************************************************************************)
(* Claims about the codec, checked under SpecCodec.                        *)
(***************************************************************************)
OptionalDocumentKeys ==
  {"contactName", "contactAddress", "description", "controlledVocabularies",
   "runQualities", "setQualities"}

\* A document whose optional fields and lists are all non-empty.
NonEmptyDocument(d) == \A k \in OptionalDocumentKeys : d[k] # <<>>

\* The last call decoded, into a new document, the encoding of doc.
DecodedOwnEncoding ==
  /\ call.op = "fromJsonStatic"
  /\ call.arg = MzQCFile_toJson(doc)

\* C1: decoding the encoding of a document whose optional fields and lists are
\* non-empty gives a document equal to it in every field, nested entities and
\* metric payloads of every shape included.
C1_RoundTrip ==
  (DecodedOwnEncoding /\ NonEmptyDocument(doc)) => (ret.ok /\ ret.obj = doc)

\* C1's case: such a document, holding every payload shape, has been encoded
\* and decoded.
C1_Witness ==
  /\ DecodedOwnEncoding
  /\ NonEmptyDocument(doc)
  /\ ret.ok
  /\ \E i \in 1..Len(ret.obj.runQualities) :
       \A p \in 1..Len(Payloads) :
         \E m \in 1..Len(ret.obj.runQualities[i].metrics) :
           ret.obj.runQualities[i].metrics[m].value = Payloads[p]

\* A json value that is an empty string, a null or an empty list.
EmptyJson(x) == x = JString(<<>>) \/ is_null(x) \/ x = JArray(<<>>)

\* C2: the encoded mzQC object has each optional key exactly when the field
\* is non-empty, and never carries an empty or null value under it.
C2_OmissionLaw ==
  call.op = "toJson" =>
    \A k \in OptionalDocumentKeys :
      /\ contains(at(wire, "mzQC"), k) <=> doc[k] # <<>>
      /\ contains(at(wire, "mzQC"), k) => ~EmptyJson(at(at(wire, "mzQC"), k))

\* C2's case: a document with an empty and a non-empty optional string and an
\* empty and a non-empty list has been encoded.
C2_Witness ==
  /\ call.op = "toJson"
  /\ doc.contactName # <<>> /\ doc.contactAddress = <<>>
  /\ doc.runQualities # <<>> /\ doc.setQualities = <<>>
  /\ doc.controlledVocabularies = <<>>

\* The elements of the array under key k of object o, none if o has no such key.
Elements(o, k) ==
  IF contains(o, k) /\ is_array(at(o, k))
  THEN {at(o, k).v[i] : i \in 1..Len(at(o, k).v)} ELSE {}

\* The encoded entities of each class in the wire document.
WireVocabularies == Elements(at(wire, "mzQC"), "controlledVocabularies")
WireRunQualities == Elements(at(wire, "mzQC"), "runQualities")
WireSetQualities == Elements(at(wire, "mzQC"), "setQualities")
WireInputFiles == UNION {Elements(q, "inputFiles") : q \in WireRunQualities}
WireSoftware == UNION {Elements(q, "analysisSoftware") : q \in WireRunQualities}
WireMetrics ==
  UNION {Elements(q, "metrics") : q \in WireRunQualities \cup WireSetQualities}
WireParameters ==
  UNION {Elements(f, "fileProperties") : f \in WireInputFiles}
    \cup {at(f, "fileFormat") : f \in {g \in WireInputFiles : contains(g, "fileFormat")}}

\* No key of the object, the given ones aside, carries an empty value.
NoEmptyMember(o, except) ==
  \A k \in DOMAIN o.v \ except : ~EmptyJson(o.v[k])

\* C3 as claimed: no entity encoder emits a key whose value is an empty
\* string, a null or an empty list (a metric's payload may be an empty string
\* or list of its own: it counts as empty only when null).
C3_NoEmptyEmitted ==
  call.op = "toJson" =>
    /\ \A o \in WireVocabularies \cup WireParameters \cup WireSoftware
                  \cup WireInputFiles \cup WireRunQualities \cup WireSetQualities :
         NoEmptyMember(o, {})
    /\ \A o \in WireMetrics :
         NoEmptyMember(o, {"value"}) /\ (contains(o, "value") => ~is_null(at(o, "value")))

\* The list under key k of object o, as a decoder reads it: empty when o has
\* no array there.
Members(o, k) == IF contains(o, k) /\ is_array(at(o, k)) THEN at(o, k).v ELSE <<>>

\* Each entity of a list with its encoding, the element at the same place.
Zip(list, a) ==
  {<<list[i], a[i]>> : i \in 1..(IF Len(list) < Len(a) THEN Len(list) ELSE Len(a))}

\* The entities of each class in the document, each with its encoding.
VocabularyPairs ==
  Zip(doc.controlledVocabularies, Members(at(wire, "mzQC"), "controlledVocabularies"))
RunQualityPairs == Zip(doc.runQualities, Members(at(wire, "mzQC"), "runQualities"))
SetQualityPairs == Zip(doc.setQualities, Members(at(wire, "mzQC"), "setQualities"))
InputFilePairs ==
  UNION {Zip(p[1].inputFiles, Members(p[2], "inputFiles")) : p \in RunQualityPairs}
SoftwarePairs ==
  UNION {Zip(p[1].analysisSoftware, Members(p[2], "analysisSoftware")) :
           p \in RunQualityPairs}
MetricPairs ==
  UNION {Zip(p[1].metrics, Members(p[2], "metrics")) :
           p \in RunQualityPairs \cup SetQualityPairs}
ParameterPairs ==
  UNION {Zip(p[1].fileProperties, Members(p[2], "fileProperties"))
           \cup {<<p[1].fileFormat[i], at(p[2], "fileFormat")>> :
                   i \in {n \in 1..Len(p[1].fileFormat) : contains(p[2], "fileFormat")}} :
         p \in InputFilePairs}

\* The keys of the encoding p[2] of entity p[1] are the required ones and those
\* optional ones whose field is not empty; a list key carries the whole list.
KeysAre(p, required, optional, lists) ==
  /\ DOMAIN p[2].v = required \cup {k \in optional : p[1][k] # <<>>}
  /\ \A k \in lists : Len(Members(p[2], k)) = Len(p[1][k])

\* C3 as amended: every encoder emits its required keys whatever the fields
\* hold, empty strings and empty lists included, and each optional key exactly
\* when its field is non-empty (a metric's value: when it is not null).
C3_OptionalKeysOnly ==
  call.op = "toJson" =>
    /\ KeysAre(<<doc, at(wire, "mzQC")>>, {"version", "creationDate"},
               OptionalDocumentKeys,
               {"controlledVocabularies", "runQualities", "setQualities"})
    /\ \A p \in VocabularyPairs :
         KeysAre(p, {"id", "name", "uri", "version"}, {}, {})
    /\ \A p \in ParameterPairs :
         KeysAre(p, {"accession", "name"}, {"value", "cvRef"}, {})
    /\ \A p \in SoftwarePairs :
         KeysAre(p, {"accession", "name", "version"}, {"uri"}, {})
    /\ \A p \in InputFilePairs :
         KeysAre(p, {"location", "name"}, {"fileFormat", "fileProperties"},
                 {"fileProperties"})
    /\ \A p \in MetricPairs :
         KeysAre(p, {"accession", "name"} \cup {k \in {"value"} : ~is_null(p[1].value)},
                 {"description", "unit"}, {})
    /\ \A p \in RunQualityPairs :
         KeysAre(p, {"label", "inputFiles", "analysisSoftware", "metrics"}, {},
                 {"inputFiles", "analysisSoftware", "metrics"})
    /\ \A p \in SetQualityPairs :
         KeysAre(p, {"label", "setRefs", "metrics"}, {}, {"setRefs", "metrics"})

\* The entities of each class in the document.
Range(list) == {list[i] : i \in 1..Len(list)}
DocInputFiles == UNION {Range(q.inputFiles) : q \in Range(doc.runQualities)}

\* C3's case: a document has been encoded that holds a run quality with empty
\* lists, a vocabulary with an empty id and an input file with no properties.
C3_Witness ==
  /\ call.op = "toJson"
  /\ NewRunQuality \in Range(doc.runQualities)
  /\ VocabularyBuilt \in Range(doc.controlledVocabularies)
  /\ InputFilePlain \in DocInputFiles
  /\ InputFileFull \in DocInputFiles

(***************************************************************************)
(* Claims about the validator and the load from a file, checked under      *)
(* SpecValidate.                                                           *)
(***************************************************************************)
\* The last call was validateAgainstSchema; the document and the schema path
\* it was given.
Validated == call.op = "validateAgainstSchema"
Required == {"version", "creationDate", "controlledVocabularies"}
\* The document has all that the presence checks look for.
AllPresent(j) ==
  /\ contains(j, "mzQC")
  /\ \A k \in Required : contains(at(j, "mzQC"), k)
  /\ contains(at(j, "mzQC"), "runQualities") \/ contains(at(j, "mzQC"), "setQualities")
\* The schema path names a file that holds JSON.
Readable(schemaPath) == Open(schemaPath).kind = "json"

\* C4 as claimed: the presence checks alone decide the verdict of
\* validateAgainstSchema: a document with version, creationDate,
\* controlledVocabularies and one of runQualities / setQualities in its root
\* object passes, whatever the values and whatever the schema path, and a
\* document lacking one of them or the root object fails.
C4_PresenceDecides == Validated => (ret.obj <=> AllPresent(call.arg.j))

\* C4 as amended: a document with version, creationDate,
\* controlledVocabularies and one of runQualities / setQualities in its root
\* object passes, whatever the values, provided the schema can be had: the
\* schema path names a file of readable JSON, or an earlier call has loaded a
\* schema. When the schema cannot be had the document fails, and a document
\* lacking one of the elements or the root object fails always.
C4_PresenceDecidesGivenSchema ==
  Validated =>
    /\ ret.obj <=> (AllPresent(call.arg.j) /\ schemaLoaded)
    /\ Readable(call.arg.schemaPath) => schemaLoaded
    /\ (prev.call.op = "validateAgainstSchema" /\ prev.ret.obj) => schemaLoaded

\* C4's case: a document with every element present and none of the expected
\* type has passed, under a schema path that names no file, after a call
\* that loaded the schema.
C4_Witness ==
  /\ Validated /\ call.arg.j = IllTypedComplete /\ call.arg.schemaPath = "missing.json"
  /\ ret.obj

\* What the presence checks miss in the root object of j: each of the
\* required keys, and "qualities" when both lists are missing.
Missing(j) ==
  {k \in Required : ~contains(at(j, "mzQC"), k)}
    \cup (IF ~contains(at(j, "mzQC"), "runQualities")
             /\ ~contains(at(j, "mzQC"), "setQualities")
          THEN {"qualities"} ELSE {})
\* j is a document that passes, less one required element.
OneRemoved(j) == contains(j, "mzQC") /\ Cardinality(Missing(j)) = 1

\* Two validations under readable schema paths, each of a passing document
\* less one required element.
TwoRemovals ==
  /\ prev.call.op = "validateAgainstSchema" /\ Validated
  /\ Readable(prev.call.arg.schemaPath) /\ Readable(call.arg.schemaPath)
  /\ OneRemoved(prev.call.arg.j) /\ OneRemoved(call.arg.j)

\* C5 as claimed: a passing document less one required element (version,
\* creationDate, controlledVocabularies, or the only one of runQualities /
\* setQualities it has) fails validation, with a reason that differs for each
\* removed element.
C5_ReasonPerElement ==
  TwoRemovals =>
    /\ ~prev.ret.obj /\ ~ret.obj
    /\ Missing(prev.call.arg.j) # Missing(call.arg.j) => prev.cerr # cerr

\* The presence check that finds the element missing: version and
\* creationDate are one check.
CheckOf(missing) ==
  IF missing \subseteq {"version", "creationDate"} THEN {"version", "creationDate"}
  ELSE missing

\* C5 as amended: a passing document less one required element fails
\* validation, with a reason that differs for each presence check: one reason
\* for version and for creationDate alike, one for the last of runQualities /
\* setQualities, one for controlledVocabularies.
C5_ReasonPerCheck ==
  TwoRemovals =>
    /\ ~prev.ret.obj /\ ~ret.obj
    /\ (CheckOf(Missing(prev.call.arg.j)) # CheckOf(Missing(call.arg.j)))
         <=> (prev.cerr # cerr)

\* C5's case: a document less its vocabularies and then one less its last
\* quality list were validated, and the two reasons differ.
C5_Witness ==
  /\ TwoRemovals
  /\ Missing(prev.call.arg.j) = {"controlledVocabularies"}
  /\ Missing(call.arg.j) = {"qualities"}
  /\ prev.cerr # cerr

\* The last call was fromFile of a file that holds a JSON document without
\* the key controlledVocabularies.
LoadedWithoutVocabularies ==
  /\ call.op = "fromFile"
  /\ Open(call.arg.filepath).kind = "json"
  /\ ~contains(mzqc(Open(call.arg.filepath).json), "controlledVocabularies")

\* C6 as claimed: for every parseable document without the key
\* controlledVocabularies, fromFile with a schema path fails with the schema
\* error and returns no document, and fromFile without one succeeds and
\* returns a document whose controlledVocabularies is empty.
C6_ValidationIsOptionalGate ==
  LoadedWithoutVocabularies =>
    IF call.arg.schemaPath # ""
    THEN /\ ~ret.ok /\ ret.obj = <<>>
         /\ ret.what = <<"File does not conform to mzQC schema">>
    ELSE ret.ok /\ ret.obj.controlledVocabularies = <<>>

(***************************************************************************)
(* Claims about decoding: into a document that has contents (C7, C9, under *)
(* SpecInPlace) and into new documents (C8, C10, under SpecStatic).        *)
(***************************************************************************)
ListKeys == {"controlledVocabularies", "runQualities", "setQualities"}

\* C7 as claimed: after fromJson(j) on a document with any prior contents,
\* every list field holds exactly the elements of the list in j, and is empty
\* when j has no such list; nothing from before the decode is left.
C7_DecodeOverwrites ==
  /\ (call.op = "fromJson" /\ ret.ok) =>
       \A k \in ListKeys : Len(doc[k]) = Len(Members(mzqc(call.arg), k))
  /\ (call.op = "QualityMetric::fromJson" /\ ret.ok /\ ~contains(call.arg, "value")) =>
       is_null(doc.runQualities[1].metrics[1].value)
  /\ (call.op = "InputFile::fromJson" /\ ret.ok) =>
       /\ ~contains(call.arg, "fileFormat") => doc.runQualities[1].inputFiles[1].fileFormat = <<>>
       /\ Len(doc.runQualities[1].inputFiles[1].fileProperties)
            = Len(Members(call.arg, "fileProperties"))

\* Two calls of fromJsonStatic, one after the other.
TwoDecodes == prev.call.op = "fromJsonStatic" /\ call.op = "fromJsonStatic"

\* The two decoded an inner document object d with a creationDate, the first
\* as it is and the second wrapped, or the other way round.
InnerOfPair ==
  IF call.arg = Wrapped(prev.call.arg) THEN prev.call.arg ELSE call.arg
BareAndWrapped ==
  /\ TwoDecodes
  /\ call.arg = Wrapped(prev.call.arg) \/ prev.call.arg = Wrapped(call.arg)
  /\ is_object(InnerOfPair) /\ contains(InnerOfPair, "creationDate")

\* C8 as claimed: for every inner document object d that has a creationDate,
\* decoding d and decoding {"mzQC": d} into new documents give the same
\* result, documents equal in every field.
C8_WrappedAgrees == BareAndWrapped => ret = prev.ret

\* C8 as amended: for every inner document object d that has a creationDate
\* and no member named mzQC of its own, decoding d and decoding {"mzQC": d}
\* into new documents give the same result, documents equal in every field.
C8_WrappedAgreesWithoutRootKey ==
  (BareAndWrapped /\ ~contains(InnerOfPair, "mzQC")) => ret = prev.ret

\* C8's case: a document with entities of every class was decoded bare and
\* then wrapped, and both decodes gave it.
C8_Witness ==
  /\ BareAndWrapped /\ call.arg = Wrapped(InnerFull)
  /\ ret.ok /\ ret.obj.runQualities # <<>> /\ ret.obj.setQualities # <<>>

\* The characters of a decimal digit.
IsDigit(c) == \E n \in 0..9 : Digit(n) = c
DigitValue(c) == CHOOSE n \in 0..9 : Digit(n) = c
Number(s) == IF Len(s) = 2 THEN 10 * DigitValue(s[1]) + DigitValue(s[2])
             ELSE 100 * (10 * DigitValue(s[1]) + DigitValue(s[2]))
                    + 10 * DigitValue(s[3]) + DigitValue(s[4])
DaysInMonth(y, m) ==
  IF m = 2 THEN (IF y % 4 = 0 /\ (y % 100 # 0 \/ y % 400 = 0) THEN 29 ELSE 28)
  ELSE IF m \in {4, 6, 9, 11} THEN 30 ELSE 31

\* YYYY-MM-DDTHH:MM:SSZ naming a date of the calendar and a time of day.
IsIso8601Utc(s) ==
  /\ Len(s) = 20
  /\ \A i \in {1, 2, 3, 4, 6, 7, 9, 10, 12, 13, 15, 16, 18, 19} : IsDigit(s[i])
  /\ s[5] = "-" /\ s[8] = "-" /\ s[11] = "T" /\ s[14] = ":" /\ s[17] = ":" /\ s[20] = "Z"
  /\ Number(SubSeq(s, 6, 7)) \in 1..12
  /\ Number(SubSeq(s, 9, 10)) \in 1..DaysInMonth(Number(SubSeq(s, 1, 4)), Number(SubSeq(s, 6, 7)))
  /\ Number(SubSeq(s, 12, 13)) \in 0..23
  /\ Number(SubSeq(s, 15, 16)) \in 0..59
  /\ Number(SubSeq(s, 18, 19)) \in 0..59

\* C9 as claimed: in every state of a document, creationDate is a well-formed
\* ISO-8601 UTC timestamp.
C9_AlwaysIso8601 == IsIso8601Utc(doc.creationDate)

\* The timestamps of the seconds the clock of a run passes through.
LeapDayEnd ==
  <<"1", "9", "7", "2", "-", "0", "2", "-", "2", "9", "T",
    "2", "3", ":", "5", "9", ":", "5", "9", "Z">>
MarchFirst ==
  <<"1", "9", "7", "2", "-", "0", "3", "-", "0", "1", "T",
    "0", "0", ":", "0", "0", ":", "0", "0", "Z">>
TimestampAt(now) ==
  IF now \div TicksPerSecond = 68255999 THEN LeapDayEnd
  ELSE IF now \div TicksPerSecond = 68256000 THEN MarchFirst
  ELSE <<>>

\* The last call made the document's creationDate itself: the constructor
\* given an empty one, or a decode of a document without the key.
GeneratedDate ==
  \/ call.op = "MzQCFile" /\ call.arg.creationDate = <<>>
  \/ call.op = "fromJson" /\ ~contains(mzqc(call.arg), "creationDate")

\* The last call was given a creationDate.
SuppliedDate ==
  \/ call.op = "MzQCFile" /\ call.arg.creationDate # <<>>
  \/ call.op = "fromJson" /\ ret.ok /\ contains(mzqc(call.arg), "creationDate")

\* C9 as amended: a creationDate the constructor (given an empty one) or the
\* decoder (given no key) generates is the time of the call, to the second,
\* as YYYY-MM-DDTHH:MM:SSZ; a creationDate that is supplied, as an argument
\* or on the wire, is stored as it is, whatever it holds.
C9_GeneratedIso8601 ==
  /\ GeneratedDate =>
       /\ doc.creationDate = TimestampAt(call.at)
       /\ IsIso8601Utc(doc.creationDate)
  /\ SuppliedDate =>
       doc.creationDate = (IF call.op = "MzQCFile" THEN call.arg.creationDate
                           ELSE at(mzqc(call.arg), "creationDate").v)

\* C9's case: the constructor, given no creationDate, has generated one after
\* the clock passed midnight.
C9_Witness ==
  /\ call.op = "MzQCFile" /\ GeneratedDate /\ doc.creationDate = MarchFirst

\* The two decodes were given the same document.
SameBytes == TwoDecodes /\ call.arg = prev.call.arg
HasDate(j) == contains(mzqc(j), "creationDate")
Undated(d) == [d EXCEPT !.creationDate = <<>>]

\* What C10 says of one decode: with the key the creationDate is the wire's,
\* without it the time of the decode, never blank.
DecodedDate ==
  (call.op = "fromJsonStatic" /\ ret.ok) =>
    /\ HasDate(call.arg) => ret.obj.creationDate = at(mzqc(call.arg), "creationDate").v
    /\ ~HasDate(call.arg) =>
         ret.obj.creationDate = TimestampAt(call.at) /\ ret.obj.creationDate # <<>>

\* Decoding the same document with a creationDate twice gives the same.
Repeatable == (SameBytes /\ HasDate(call.arg)) => ret = prev.ret

\* C10 as claimed: the decoded creationDate is the wire's when the key is
\* there, which makes the decode repeatable, and the clock value at decode
\* time when it is not, so that two decodes of the same document at different
\* clock values differ in creationDate and in nothing else.
C10_DifferentClockDifferentDate ==
  /\ DecodedDate
  /\ Repeatable
  /\ (SameBytes /\ ~HasDate(call.arg) /\ ret.ok /\ call.at # prev.call.at) =>
       /\ ret.obj.creationDate # prev.ret.obj.creationDate
       /\ Undated(ret.obj) = Undated(prev.ret.obj)

\* C10 as amended: the decoded creationDate is the wire's when the key is
\* there, which makes the decode repeatable, and the clock value at decode
\* time to the second when it is not, so that two decodes of the same
\* document differ in nothing but creationDate, and differ in creationDate
\* exactly when the clock values lie in different seconds.
C10_DifferentSecondDifferentDate ==
  /\ DecodedDate
  /\ Repeatable
  /\ (SameBytes /\ ~HasDate(call.arg) /\ ret.ok) =>
       /\ prev.ret.ok
       /\ Undated(ret.obj) = Undated(prev.ret.obj)
       /\ (ret.obj.creationDate # prev.ret.obj.creationDate)
            <=> (to_time_t(call.at) # to_time_t(prev.call.at))

\* C10's case: a document without the key was decoded twice, before and
\* after midnight, and the two documents carry the two dates.
C10_Witness ==
  /\ SameBytes /\ ~HasDate(call.arg) /\ ret.ok
  /\ ret.obj.runQualities # <<>>
  /\ prev.ret.obj.creationDate = LeapDayEnd /\ ret.obj.creationDate = MarchFirst

(***************************************************************************)
(* Claims about the term cache, checked under SpecTerms.                   *)
(***************************************************************************)
\* The last call was loadFromOboFile, of a file of ontology text; its lines.
LoadedText ==
  call.op = "loadFromOboFile" /\ Open(call.arg.filename).kind = "text"
LoadedLines == Open(call.arg.filename).lines

\* Where the [Term] markers of a text are, and the lines that follow a marker
\* up to the next marker or the end of the text.
Markers(lines) == {i \in 1..Len(lines) : lines[i] = TermMarker}
NextMarker(lines, i) ==
  Min({m \in (i + 1)..Len(lines) : lines[m] = TermMarker} \cup {Len(lines) + 1})
LinesAfter(lines, i) == (i + 1)..(NextMarker(lines, i) - 1)
IdLinesAfter(lines, i) == {k \in LinesAfter(lines, i) : StartsWith(lines[k], IdPrefix)}

\* The markers followed by a non-empty id: line; and a text in which no id:
\* line that follows a marker is empty.
MarkersWithId(lines) ==
  {i \in Markers(lines) : \E k \in IdLinesAfter(lines, i) : Len(lines[k]) > Len(IdPrefix)}
NoEmptyId(lines) ==
  \A i \in Markers(lines) : \A k \in IdLinesAfter(lines, i) : Len(lines[k]) > Len(IdPrefix)

\* C11 as claimed: a load of an ontology text returns the number of its
\* [Term] markers that are followed by a non-empty id: line; a marker
\* followed by no id: line adds nothing to the count.
C11_CountsMarkers ==
  (LoadedText /\ NoEmptyId(LoadedLines))
    => ret = Returned(Cardinality(MarkersWithId(LoadedLines)))

\* The terms of a source: what a cache that holds nothing holds after the
\* source is parsed into it.
TermsOf(lines) == Parsed(EmptyMap, lines)

\* C12 as claimed: after a load of a source, whatever was loaded before, the
\* cache holds exactly the terms of that source, and the load returns their
\* number; no term of an earlier source remains.
C12_ReparseReplaces ==
  LoadedText
    => /\ cvTermCache.termCache = TermsOf(LoadedLines)
       /\ ret = Returned(Cardinality(DOMAIN TermsOf(LoadedLines)))

\* The record a [Term] marker opens, read off the lines that follow it: each
\* field from the last line with its prefix, the parents from every is_a:
\* line in order.
Max(S) == CHOOSE i \in S : \A k \in S : i >= k
LastWith(lines, i, prefix) ==
  IF \E k \in LinesAfter(lines, i) : StartsWith(lines[k], prefix)
  THEN substr(lines[Max({k \in LinesAfter(lines, i) : StartsWith(lines[k], prefix)})],
              Len(prefix))
  ELSE <<>>
IsParentLine(line) == StartsWith(line, IsAPrefix)
ParentLinesAfter(lines, i) ==
  SelectSeq(SubSeq(lines, i + 1, NextMarker(lines, i) - 1), IsParentLine)
ParentsAfter(lines, i) ==
  [k \in 1..Len(ParentLinesAfter(lines, i)) |->
     substr(ParentLinesAfter(lines, i)[k], Len(IsAPrefix))]
RecordAt(lines, i) ==
  [accession |-> LastWith(lines, i, IdPrefix), name |-> LastWith(lines, i, NamePrefix),
   definition |-> LastWith(lines, i, DefPrefix), relationships |-> <<>>,
   parentTerms |-> ParentsAfter(lines, i), valueType |-> <<>>, unit |-> <<>>]

\* The markers whose record has the accession, and the accessions the
\* records of a text have.
MarkersOf(lines, accession) ==
  {i \in Markers(lines) : RecordAt(lines, i).accession = accession}
AccessionsOf(lines) == {RecordAt(lines, i).accession : i \in Markers(lines)} \ {<<>>}

\* The cache the flush rule leaves: every record with a non-empty accession
\* is stored under it, the last record of an accession over the earlier
\* ones and over what the cache held; nothing else is touched.
FlushRule(before, lines) ==
  [a \in DOMAIN before \cup AccessionsOf(lines) |->
     IF a \in AccessionsOf(lines) THEN RecordAt(lines, Max(MarkersOf(lines, a)))
     ELSE before[a]]

\* C16: the scanner stores the record in progress under its accession at a
\* [Term] line and at the end of the input, if and only if a term is open and
\* its accession is not empty; lines before the first [Term] do not affect
\* the cache; of several records with one accession the cache holds the last.
C16_FlushRule ==
  [][(call'.op = "loadFromOboFile" /\ Open(call'.arg.filename).kind = "text")
       => cvTermCache'.termCache
            = FlushRule(cvTermCache.termCache, Open(call'.arg.filename).lines)]_vars

\* A text was loaded in which two records have the same accession: the
\* first was in progress at the second [Term] line, the second was open at
\* the end of the input, and the cache holds the fields of the second.
C16_Witness ==
  /\ LoadedText
  /\ LoadedLines = Blocks[2] \o Blocks[5]
  /\ cvTermCache.termCache[<<"A">>]
       = [CvTermDetails EXCEPT !.accession = <<"A">>, !.name = <<"z">>,
                               !.definition = <<"d">>]

(***************************************************************************)
(* Claims about the schema cache, checked under SpecValidate.              *)
(***************************************************************************)
\* The step is a call that calls loadSchema: validateAgainstSchema, or a
\* fromFile that has parsed its file and was given a schema path. The path
\* loadSchema is given, and whether the call opened the file at that path.
CallsLoadSchema ==
  \/ call'.op = "validateAgainstSchema"
  \/ call'.op = "fromFile" /\ Validates(call'.arg.filepath, call'.arg.schemaPath)
SchemaPathGiven == call'.arg.schemaPath
SchemaFileOpened == \E i \in DOMAIN opened' : opened'[i] = OpenedIn(SchemaPathGiven)

\* C13: in a sequence of validations by one thread a schema file is read to
\* the end at most once; once a schema is loaded every later loadSchema
\* returns that payload and opens no file, whatever the path it is given;
\* a load that fails leaves no schema loaded, and the next call opens the
\* file it is given.
C13_SchemaMemoized ==
  [][/\ schemaReads' <= 1
     /\ schemaLoaded
          => /\ schemaLoaded' /\ cachedSchema' = cachedSchema
             /\ schemaReads' = schemaReads
             /\ CallsLoadSchema
                  => /\ loadSchema(SchemaPathGiven) = Returned(cachedSchema)
                     /\ ~SchemaFileOpened
     /\ (~schemaLoaded /\ CallsLoadSchema)
          => /\ SchemaFileOpened
             /\ schemaLoaded' = Readable(SchemaPathGiven)
             /\ schemaLoaded' => /\ cachedSchema' = Open(SchemaPathGiven).json
                                 /\ schemaReads' = schemaReads + 1
             /\ ~schemaLoaded' => schemaReads' = schemaReads]_vars

\* A validation was given a path at which there is no file, after a schema
\* was loaded from another path: it opened no file and had the schema.
C13_Witness ==
  /\ Validated /\ call.arg.schemaPath = "missing.json"
  /\ schemaLoaded /\ schemaReads = 1 /\ opened = <<>>
  /\ cachedSchema = Open("schema.json").json

(***************************************************************************)
(* Claims about the load and the validator's order, checked under          *)
(* SpecValidate.                                                           *)
(***************************************************************************)
\* The last call was fromFile and it threw.
LoadFailed == call.op = "fromFile" /\ ~ret.ok

\* The kind of failure an exception of fromFile stands for: the code has one
\* exception type for the three, told apart by the message.
FailureKind(r) ==
  IF r.type # "std::runtime_error" \/ r.what = <<>> THEN "none"
  ELSE IF Head(r.what) = "Could not open file: " THEN "IOError"
  ELSE IF Head(r.what) = "Error parsing JSON from file: " THEN "ParseError"
  ELSE IF Head(r.what) = "File does not conform to mzQC schema" THEN "SchemaError"
  ELSE "none"

\* C14 as claimed: fromFile opens, parses, validates if a schema path is
\* given, then decodes; a load that fails ends in exactly one of IOError (the
\* file cannot be opened), ParseError (its bytes are no JSON) and SchemaError
\* (the validator rejected it), also when a field that is present has an
\* unexpected JSON type; and it returns no document.
C14_FailureIsOneOfThree ==
  LoadFailed
    => /\ ret.obj = <<>>
       /\ FailureKind(ret) \in {"IOError", "ParseError", "SchemaError"}
       /\ FailureKind(ret) = "IOError" <=> Open(call.arg.filepath).kind = "missing"
       /\ FailureKind(ret) = "ParseError" <=> Open(call.arg.filepath).kind = "malformed"
       /\ FailureKind(ret) = "SchemaError"
            => /\ Validates(call.arg.filepath, call.arg.schemaPath)
               /\ cerr # <<>>

\* The presence checks by number, in the order of the spec: whether a
\* document fails the check, and the reason the check reports.
RootOf(j) == IF contains(j, "mzQC") THEN at(j, "mzQC") ELSE JNull
FailsCheck(j, n) ==
  CASE n = 1 -> ~contains(j, "mzQC")
    [] n = 2 -> ~contains(RootOf(j), "version") \/ ~contains(RootOf(j), "creationDate")
    [] n = 3 -> ~contains(RootOf(j), "runQualities") /\ ~contains(RootOf(j), "setQualities")
    [] n = 4 -> ~contains(RootOf(j), "controlledVocabularies")
FailingChecks(j) == {n \in 1..4 : FailsCheck(j, n)}
CheckReasons ==
  <<"missing root 'mzQC' object", "missing required properties in mzQC object",
    "either runQualities or setQualities must be present",
    "controlledVocabularies must be present">>
EarliestReason(j) ==
  <<"Schema validation error: ", CheckReasons[Min(FailingChecks(j))]>>

\* C17 as claimed: the presence checks run in the order root object, version
\* and creationDate, one of the quality lists, controlledVocabularies; a
\* document that fails several checks is rejected with the one reason of the
\* earliest check it fails.
C17_EarliestCheckReported ==
  (Validated /\ FailingChecks(call.arg.j) # {})
    => /\ ~ret.obj
       /\ cerr = EarliestReason(call.arg.j)

\* C17 as amended: provided the schema can be had, a document that fails
\* several presence checks is rejected with the one reason of the earliest
\* check it fails, in the order root object, version and creationDate, one of
\* the quality lists, controlledVocabularies; a document that fails none
\* passes. When the schema cannot be had, the one reason reported is that of
\* the schema load, which comes before every presence check.
C17_EarliestCheckReportedGivenSchema ==
  Validated
    => IF ~schemaLoaded
       THEN /\ ~ret.obj
            /\ SubSeq(cerr, 1, 2)
                 = <<"Schema validation error: ", "Error loading schema file: ">>
       ELSE IF FailingChecks(call.arg.j) # {}
       THEN ~ret.obj /\ cerr = EarliestReason(call.arg.j)
       ELSE ret.obj

\* C17's case: a document that has neither quality list nor vocabularies was
\* validated under a schema, and the reason is that of the quality lists.
C17_Witness ==
  /\ Validated /\ schemaLoaded
  /\ FailingChecks(call.arg.j) = {3, 4}
  /\ cerr = <<"Schema validation error: ",
              "either runQualities or setQualities must be present">>

(***************************************************************************)
(* Claims about the save, checked under SpecSave.                          *)
(***************************************************************************)
\* The step is a call of toFile; its arguments, the encoding of the document
\* it is called on, and whether the validator rejects that encoding: the
\* schema cannot be had, or a presence check fails.
Saves == call'.op = "toFile"
SavedTo == call'.arg.filepath
Encoding == MzQCFile_toJson(doc)
Rejected ==
  call'.arg.schemaPath # "" /\ (~schemaLoaded' \/ FailingChecks(Encoding) # {})
TargetOpened == \E i \in DOMAIN opened' : opened'[i] = OpenedOut(SavedTo)

\* C15: toFile encodes, validates if a schema path is given, then writes.
\* When the validation fails the file at the target path is not opened,
\* created or truncated, and the document is unchanged; with no schema path
\* no check is run and the encoding is written.
C15_ValidatesBeforeWriting ==
  [][Saves
       => /\ doc' = doc
          /\ Rejected
               => /\ ~ret'.ok
                  /\ ret'.what = <<"Generated mzQC does not conform to schema">>
                  /\ files' = files /\ ~TargetOpened
          /\ ~Rejected
               => /\ TargetOpened /\ opened'[Len(opened')] = OpenedOut(SavedTo)
                  /\ Writable(SavedTo)
                       => ret'.ok /\ files'[SavedTo] = JsonFile(Encoding)
                  /\ ~Writable(SavedTo) => ~ret'.ok /\ files' = files
          /\ call'.arg.schemaPath = ""
               => /\ cerr' = cerr /\ schemaLoaded' = schemaLoaded
                  /\ opened' = <<OpenedOut(SavedTo)>>]_vars

\* A save with a schema path was rejected while the target file held the
\* encoding of another document, and the file still holds it.
C15_Witness ==
  /\ call.op = "toFile" /\ call.arg.schemaPath = "schema.json"
  /\ call.arg.filepath = "in.mzqc"
  /\ ~ret.ok /\ ret.what = <<"Generated mzQC does not conform to schema">>
  /\ opened = <<>>
  /\ Open("in.mzqc").kind = "json"
  /\ Open("in.mzqc").json # MzQCFile_toJson(doc)

\* The document has vocabularies and at least one quality list that is not
\* empty.
Complete(d) ==
  d.controlledVocabularies # <<>> /\ (d.runQualities # <<>> \/ d.setQualities # <<>>)

\* The last call was toFile, with or without a schema path; and the last
\* call was fromFile with a schema path, of a file that holds the encoding
\* of the document.
SavedWithSchema == call.op = "toFile" /\ call.arg.schemaPath # ""
SavedWithoutSchema == call.op = "toFile" /\ call.arg.schemaPath = ""
LoadedOwnEncoding ==
  /\ call.op = "fromFile" /\ call.arg.schemaPath # ""
  /\ Open(call.arg.filepath) = JsonFile(MzQCFile_toJson(doc))

\* C19: the encoder omits the empty lists the validator requires, so a save
\* with a schema path succeeds only for a document that has vocabularies and
\* a quality list that is not empty, and fails with the schema error for
\* every other document; such a document saved without a schema path is
\* written, and a load of what was written, with a schema path, fails.
C19_SaveNeedsTheLists ==
  /\ FailingChecks(MzQCFile_toJson(doc)) = {} <=> Complete(doc)
  /\ (SavedWithSchema /\ ret.ok) => Complete(doc)
  /\ (SavedWithSchema /\ ~Complete(doc))
       => /\ ~ret.ok
          /\ ret.what = <<"Generated mzQC does not conform to schema">>
  /\ (SavedWithoutSchema /\ ~Complete(doc) /\ Writable(call.arg.filepath))
       => ret.ok /\ Open(call.arg.filepath) = JsonFile(MzQCFile_toJson(doc))
  /\ (LoadedOwnEncoding /\ ~Complete(doc))
       => /\ ~ret.ok /\ ret.obj = <<>>
          /\ ret.what = <<"File does not conform to mzQC schema">>

\* A document that has a quality list and no vocabularies was saved without
\* a schema path, and a load of the file under a schema that is loaded has
\* failed.
C19_Witness ==
  /\ LoadedOwnEncoding /\ schemaLoaded
  /\ doc.controlledVocabularies = <<>> /\ doc.runQualities # <<>>
  /\ ~ret.ok /\ ret.what = <<"File does not conform to mzQC schema">>

(***************************************************************************)
(* Claims about two threads in loadSchema, checked under SpecRace.         *)
(***************************************************************************)
\* C18: two threads that call loadSchema before any load has completed can
\* both find the cache not loaded, and then both read the schema file and
\* write cachedSchema: a schema is loaded once for each thread that found
\* none loaded, not once for the process. A thread reads the file only after
\* it found no schema loaded, and no thread parses a schema twice.
C18_OncePerThread ==
  /\ \A t \in Threads : threads[t].pc \in {"read", "set"} => ~threads[t].foundLoaded
  /\ schemaReads = Cardinality({t \in Threads : threads[t].parsed})
  /\ schemaLoaded => schemaReads >= 1

\* Both threads found the cache not loaded, both have read the schema file
\* and written cachedSchema, and neither has set schemaLoaded yet.
C18_Witness ==
  /\ \A t \in Threads : threads[t].pc = "set" /\ ~threads[t].foundLoaded
  /\ schemaReads = 2
  /\ ~schemaLoaded

====
